---- MODULE Spec2Model ----
(***************************************************************************)
(* Model of poocam's motion-triggered recording pipeline (src/poocam.py):  *)
(* the detector thread (motion_detector), the GUI thread's shutdown        *)
(* handler (closeEvent) and the muxer thread (muxer), interleaved at the   *)
(* granularity of the Python statements that touch shared state.           *)
(***************************************************************************)
EXTENDS Integers, Sequences, FiniteSets

VARIABLES
    pc,               \* position of each thread: detector, gui, muxer
    recording,        \* self._recording
    run,              \* self._run
    muxer_queue,      \* self._muxer_queue
    current_filename, \* self.current_filename (None or the recording's name)
    pts_writer,       \* self._pts_writer (None or the name whose writer it is)
    openWriters,      \* names whose timecode file object is open
    encoderRunning,   \* the camera's encoder, as left by the last call
    overlay,          \* the recording indicator
    temp,             \* files of temp_directory, as <<name, extension>>
    target,           \* files of target_directory
    previous,         \* motion_detector: previous frame (None or a frame)
    last_activity,    \* motion_detector: last_activity
    stabilized,       \* motion_detector: stabilized
    mse,              \* motion_detector: mse of the current iteration
    now,              \* time.monotonic()
    peak,             \* history: the highest score observed so far
    belowSeen,        \* history: some score observed so far was below the threshold
    names,            \* number of recording names generated so far
    filename,         \* muxer: filename
    job,              \* muxer: outcome of the steps of the job in hand
    calls,            \* history: number of calls made so far, per operation
    submitted,        \* history: every value put on the queue, in order
    muxed,            \* history: every mkvmerge invocation, in order
    shutdownMark,     \* history: Len(submitted) when _run was set False
    faults            \* number of failures the environment has injected so far

vars == <<pc, recording, run, muxer_queue, current_filename, pts_writer,
          openWriters, encoderRunning, overlay, temp, target, previous,
          last_activity, stabilized, mse, now, peak, belowSeen, names, filename,
          job,
          calls,
          submitted, muxed, shutdownMark, faults>>

ctrlVars == <<recording, current_filename, pts_writer, openWriters,
              encoderRunning, overlay, names, calls>>
queueVars == <<run, muxer_queue, submitted, shutdownMark>>
detVars == <<previous, last_activity, stabilized, mse, now, peak, belowSeen>>
muxVars == <<filename, job, muxed>>
fileVars == <<temp, target>>

----------------------------------------------------------------------------
\* Bounds of the model.
MaxTime == 8
MaxRecordings == 2
MaxFaults == 2

\* Program constants.
recording_timeout == 3
mse_threshold == 6

\* recording_timeout is poocam_config["recording_timeout"], in seconds;
\* mse_threshold is the default of --mse-threshold.
None == 0

\* The scores a frame can have (below, at and above the threshold) and the
\* seconds between two frames.
Scores == {5, 6, 7}
Dts == {1}

\* The score sequence of the scenario, observed one per second.
ScenarioScores == <<0, 0, 0, 8, 9, 2, 1, 8, 0, 0, 0, 0>>

NoJob == [name |-> None, mux |-> "none", rm_h264 |-> "none",
          rm_pts |-> "none", mv |-> "none"]

----------------------------------------------------------------------------
Init ==
    /\ pc = [detector |-> "loop", gui |-> "idle", muxer |-> "loop"]
    /\ recording = FALSE
    /\ run = TRUE
    /\ muxer_queue = << >>
    /\ current_filename = None
    /\ pts_writer = None
    /\ openWriters = {}
    /\ encoderRunning = FALSE
    /\ overlay = FALSE
    /\ temp = {}
    /\ target = {}
    /\ previous = "None"
    /\ last_activity = 0
    /\ stabilized = FALSE
    /\ mse = 0
    /\ now = 0
    /\ peak = 0
    /\ belowSeen = FALSE
    /\ names = 0
    /\ filename = None
    /\ job = NoJob
    /\ calls = [start_recording |-> 0, stop_recording |-> 0,
                start_encoder |-> 0, stop_encoder |-> 0]
    /\ submitted = << >>
    /\ muxed = << >>
    /\ shutdownMark = -1
    /\ faults = 0

Goto(t, l) == pc' = [pc EXCEPT ![t] = l]
Called(op) == calls' = [calls EXCEPT ![op] = @ + 1]

\* An operation of the environment (a file, the encoder, mkvmerge) that could
\* have succeeded fails: at most MaxFaults times in a behaviour.
Outcome(ok, possible) ==
    /\ ok => possible
    /\ IF possible /\ ~ok
         THEN faults < MaxFaults /\ faults' = faults + 1
         ELSE UNCHANGED faults

----------------------------------------------------------------------------
\* start_recording, called by the detector thread only.

\* line 135: self._recording = True
Start_135 ==
    /\ pc["detector"] = "sr_135"
    /\ recording' = TRUE
    /\ Called("start_recording")
    /\ Goto("detector", "sr_136")
    /\ UNCHANGED <<current_filename, pts_writer, openWriters, encoderRunning,
                   overlay, names, faults>>
    /\ UNCHANGED <<queueVars, detVars, muxVars, fileVars>>

\* line 136: self.current_filename = <timestamp>, a name not used before
Start_136 ==
    /\ pc["detector"] = "sr_136"
    /\ names' = names + 1
    /\ current_filename' = names + 1
    /\ Goto("detector", "sr_138")
    /\ UNCHANGED <<recording, pts_writer, openWriters, encoderRunning,
                   overlay, calls, faults>>
    /\ UNCHANGED <<queueVars, detVars, muxVars, fileVars>>

\* lines 138-139: self._pts_writer = io.open(<name>.txt, "w"), then the header
\* line; an OSError leaves start_recording and motion_detector (no handler).
Start_138(ok) ==
    /\ pc["detector"] = "sr_138"
    /\ Outcome(ok, TRUE)
    /\ IF ok
         THEN /\ pts_writer' = current_filename
              /\ openWriters' = openWriters \cup {current_filename}
              /\ temp' = temp \cup {<<current_filename, "txt">>}
              /\ Goto("detector", "sr_142")
         ELSE /\ UNCHANGED <<pts_writer, openWriters, temp>>
              /\ Goto("detector", "raised_138")
    /\ UNCHANGED <<recording, current_filename, encoderRunning, overlay,
                   names, calls, target>>
    /\ UNCHANGED <<queueVars, detVars, muxVars>>

\* lines 140-142: the FileOutput on <name>.h264 and camera.start_encoder; an
\* exception leaves start_recording and motion_detector (no handler).
Start_142(ok) ==
    /\ pc["detector"] = "sr_142"
    /\ Outcome(ok, TRUE)
    /\ Called("start_encoder")
    /\ IF ok
         THEN /\ encoderRunning' = TRUE
              /\ temp' = temp \cup {<<current_filename, "h264">>}
              /\ Goto("detector", "sr_143")
         ELSE /\ UNCHANGED <<encoderRunning, temp>>
              /\ Goto("detector", "raised_142")
    /\ UNCHANGED <<recording, current_filename, pts_writer, openWriters,
                   overlay, names, target>>
    /\ UNCHANGED <<queueVars, detVars, muxVars>>

\* line 143: self.set_overlay(True); then line 232 of the caller:
\* last_activity = time.monotonic()
Start_143 ==
    /\ pc["detector"] = "sr_143"
    /\ overlay' = TRUE
    /\ last_activity' = now
    /\ Goto("detector", "loop")
    /\ UNCHANGED <<recording, current_filename, pts_writer, openWriters,
                   encoderRunning, names, calls, faults>>
    /\ UNCHANGED <<previous, stabilized, mse, now, peak, belowSeen>>
    /\ UNCHANGED <<queueVars, muxVars, fileVars>>

start_recording ==
    \/ Start_135
    \/ Start_136
    \/ \E ok \in BOOLEAN : Start_138(ok)
    \/ \E ok \in BOOLEAN : Start_142(ok)
    \/ Start_143

----------------------------------------------------------------------------
\* stop_recording, called by the detector thread (line 234) and by the GUI
\* thread's closeEvent (line 210).

Return(t) == IF t = "detector" THEN "loop" ELSE "close_211"

\* The test of self._recording left out: the stop sequence runs when Idle too.
StopWhenIdle_Unguarded(t) == "st_147"

\* line 146, _recording False: stop_recording returns, nothing done or logged
StopWhenIdle(t) == Return(t)

\* line 146: if self._recording
Stop_146(t) ==
    /\ pc[t] = "st_146"
    /\ IF recording
         THEN /\ Called("stop_recording")
              /\ Goto(t, "st_147")
         ELSE /\ UNCHANGED calls
              /\ Goto(t, StopWhenIdle(t))
    /\ UNCHANGED <<recording, current_filename, pts_writer, openWriters,
                   encoderRunning, overlay, names, faults>>
    /\ UNCHANGED <<queueVars, detVars, muxVars, fileVars>>

\* line 147: self.camera.stop_encoder(); an exception leaves stop_recording
\* and its caller (no handler).
Stop_147(t, ok) ==
    /\ pc[t] = "st_147"
    /\ Outcome(ok, TRUE)
    /\ Called("stop_encoder")
    /\ IF ok
         THEN /\ encoderRunning' = FALSE
              /\ Goto(t, "st_148")
         ELSE /\ UNCHANGED encoderRunning
              /\ Goto(t, "raised_147")
    /\ UNCHANGED <<recording, current_filename, pts_writer, openWriters,
                   overlay, names>>
    /\ UNCHANGED <<queueVars, detVars, muxVars, fileVars>>

\* lines 148-149: if self._pts_writer: self._pts_writer.close()
Stop_148(t) ==
    /\ pc[t] = "st_148"
    /\ openWriters' = IF pts_writer # None THEN openWriters \ {pts_writer}
                                          ELSE openWriters
    /\ Goto(t, "st_150")
    /\ UNCHANGED <<recording, current_filename, pts_writer, encoderRunning,
                   overlay, names, calls, faults>>
    /\ UNCHANGED <<queueVars, detVars, muxVars, fileVars>>

\* line 150: self.set_overlay(False)
Stop_150(t) ==
    /\ pc[t] = "st_150"
    /\ overlay' = FALSE
    /\ Goto(t, "st_151")
    /\ UNCHANGED <<recording, current_filename, pts_writer, openWriters,
                   encoderRunning, names, calls, faults>>
    /\ UNCHANGED <<queueVars, detVars, muxVars, fileVars>>

\* line 151: self._muxer_queue.put(self.current_filename)
Stop_151(t) ==
    /\ pc[t] = "st_151"
    /\ muxer_queue' = Append(muxer_queue, current_filename)
    /\ submitted' = Append(submitted, current_filename)
    /\ Goto(t, "st_152")
    /\ UNCHANGED <<run, shutdownMark, faults>>
    /\ UNCHANGED <<ctrlVars, detVars, muxVars, fileVars>>

\* line 152: self._recording = False
Stop_152(t) ==
    /\ pc[t] = "st_152"
    /\ recording' = FALSE
    /\ Goto(t, Return(t))
    /\ UNCHANGED <<current_filename, pts_writer, openWriters, encoderRunning,
                   overlay, names, calls, faults>>
    /\ UNCHANGED <<queueVars, detVars, muxVars, fileVars>>

stop_recording(t) ==
    \/ Stop_146(t)
    \/ \E ok \in BOOLEAN : Stop_147(t, ok)
    \/ Stop_148(t)
    \/ Stop_150(t)
    \/ Stop_151(t)
    \/ Stop_152(t)

----------------------------------------------------------------------------
\* closeEvent, run once by the GUI thread.

\* line 210: self.stop_recording()
Close_210 ==
    /\ pc["gui"] = "idle"
    /\ Goto("gui", "st_146")
    /\ UNCHANGED faults
    /\ UNCHANGED <<ctrlVars, queueVars, detVars, muxVars, fileVars>>

\* line 211: self._run = False
Close_211 ==
    /\ pc["gui"] = "close_211"
    /\ run' = FALSE
    /\ shutdownMark' = Len(submitted)
    /\ Goto("gui", "done")
    /\ UNCHANGED <<muxer_queue, submitted, faults>>
    /\ UNCHANGED <<ctrlVars, detVars, muxVars, fileVars>>

closeEvent ==
    \/ Close_210
    \/ stop_recording("gui")
    \/ Close_211

----------------------------------------------------------------------------
\* motion_detector, the detector thread.

\* The comparison inverted.
IsActivity_Inverted(m) == m < mse_threshold

\* The threshold itself counted as activity.
IsActivity_Inclusive(m) == m >= mse_threshold

\* line 229: mse > self.mse_threshold
IsActivity(m) == m > mse_threshold

\* The test of self._recording left out.
ShouldStart_Always == TRUE

\* line 230: if not self._recording
ShouldStart == ~recording

\* The worker never leaves its loop.
MuxerContinues_Always == TRUE

\* The timeout reached, not exceeded.
TimedOut_Inclusive(t, la) == t - la >= recording_timeout

\* line 233: time.monotonic() - last_activity > recording_timeout
TimedOut(t, la) == t - la > recording_timeout

\* The detector taken as stabilized from the start.
Stabilize_Always(st, m) == TRUE

\* The flag recomputed at every frame instead of kept.
Stabilize_Fresh(st, m) == m < mse_threshold

\* lines 227-228: if not stabilized and mse < self.mse_threshold:
\* stabilized = True
Stabilize(st, m) == st \/ m < mse_threshold

\* line 221: while self._run
Detector_221 ==
    /\ pc["detector"] = "loop"
    /\ Goto("detector", IF run THEN "capture" ELSE "done")
    /\ UNCHANGED faults
    /\ UNCHANGED <<ctrlVars, queueVars, detVars, muxVars, fileVars>>

\* lines 222-229 and 239: the next frame arrives dt after the last one; its
\* score against the previous frame is s. The first frame has no score.
Detector_222(s, dt) ==
    /\ pc["detector"] = "capture"
    /\ now' = now + dt
    /\ previous' = "frame"
    /\ IF previous = "None"
         THEN /\ UNCHANGED <<mse, stabilized, peak, belowSeen>>
              /\ Goto("detector", "loop")
         ELSE /\ mse' = s
              /\ peak' = IF s > peak THEN s ELSE peak
              /\ belowSeen' = (belowSeen \/ s < mse_threshold)
              /\ stabilized' = Stabilize(stabilized, s)
              /\ Goto("detector", IF stabilized' /\ IsActivity(s)
                                    THEN "det_230" ELSE "det_233")
    /\ UNCHANGED <<last_activity, faults>>
    /\ UNCHANGED <<ctrlVars, queueVars, muxVars, fileVars>>

\* lines 230-232: if not self._recording: self.start_recording(); then
\* last_activity = time.monotonic()
Detector_230 ==
    /\ pc["detector"] = "det_230"
    /\ IF ShouldStart
         THEN /\ names < MaxRecordings \/ ~run
              /\ UNCHANGED last_activity
              /\ Goto("detector", "sr_135")
         ELSE /\ last_activity' = now
              /\ Goto("detector", "loop")
    /\ UNCHANGED <<previous, stabilized, mse, now, peak, belowSeen, faults>>
    /\ UNCHANGED <<ctrlVars, queueVars, muxVars, fileVars>>

\* lines 233-234: elif self._recording and <timed out>: self.stop_recording()
Detector_233 ==
    /\ pc["detector"] = "det_233"
    /\ Goto("detector", IF recording /\ TimedOut(now, last_activity)
                          THEN "st_146" ELSE "loop")
    /\ UNCHANGED faults
    /\ UNCHANGED <<ctrlVars, queueVars, detVars, muxVars, fileVars>>

motion_detector ==
    \/ Detector_221
    \/ Detector_230
    \/ start_recording
    \/ Detector_233
    \/ stop_recording("detector")

----------------------------------------------------------------------------
\* muxer, the muxer thread.

\* The loop left as soon as _run is False, the queue not looked at.
MuxerContinues_RunOnly == run

\* line 243: while self._run or not self._muxer_queue.empty()
MuxerContinues == run \/ muxer_queue # << >>

\* The continue left out: the deletions follow a failed run too.
AfterMux_NoContinue(ok) == "rm_258"

\* lines 253-255: a non-zero return code abandons the job (continue)
AfterMux(ok) == IF ok THEN "rm_258" ELSE "loop"

\* The container renamed away from the temp directory but not into the
\* destination directory.
Moved_Nowhere(dir, f) == dir

\* One handler around the three steps: a failed deletion ends the job.
AfterRemove_Abort(ok, next) == IF ok THEN next ELSE "loop"

\* lines 259-260 and 263-264: an OSError of os.remove is logged and the next
\* step follows
AfterRemove(ok, next) == next

\* line 266: the destination of the finished container
Moved(dir, f) == dir \cup {f}

Muxer_243 ==
    /\ pc["muxer"] = "loop"
    /\ Goto("muxer", IF MuxerContinues THEN "get" ELSE "done")
    /\ UNCHANGED faults
    /\ UNCHANGED <<ctrlVars, queueVars, detVars, muxVars, fileVars>>

\* lines 244-248: get(block=True, timeout=1) returns the head of the queue, or
\* raises queue.Empty after the timeout; a None or empty name is skipped.
Muxer_245 ==
    /\ pc["muxer"] = "get"
    /\ IF muxer_queue # << >>
         THEN /\ filename' = Head(muxer_queue)
              /\ muxer_queue' = Tail(muxer_queue)
         ELSE /\ filename' = None
              /\ UNCHANGED muxer_queue
    /\ job' = [NoJob EXCEPT !.name = filename']
    /\ Goto("muxer", IF filename' # None THEN "mux_252" ELSE "loop")
    /\ UNCHANGED <<run, submitted, shutdownMark, muxed, faults>>
    /\ UNCHANGED <<ctrlVars, detVars, fileVars>>

\* lines 249-255: mkvmerge on <name>.txt and <name>.h264 into <name>.mkv. It
\* cannot succeed without its inputs; a failed run may leave a partial .mkv.
Muxer_252(ok, partial) ==
    /\ pc["muxer"] = "mux_252"
    /\ Outcome(ok, {<<filename, "h264">>, <<filename, "txt">>} \subseteq temp)
    /\ ok => partial
    /\ muxed' = Append(muxed, [name |-> filename, ok |-> ok])
    /\ job' = [job EXCEPT !.mux = IF ok THEN "ok" ELSE "failed"]
    /\ temp' = IF partial THEN temp \cup {<<filename, "mkv">>} ELSE temp
    /\ Goto("muxer", AfterMux(ok))
    /\ UNCHANGED <<filename, target>>
    /\ UNCHANGED <<ctrlVars, queueVars, detVars>>

\* lines 257-260: os.remove(h264_path), OSError logged
Muxer_258(ok) ==
    /\ pc["muxer"] = "rm_258"
    /\ Outcome(ok, <<filename, "h264">> \in temp)
    /\ temp' = IF ok THEN temp \ {<<filename, "h264">>} ELSE temp
    /\ job' = [job EXCEPT !.rm_h264 = IF ok THEN "ok" ELSE "failed"]
    /\ Goto("muxer", AfterRemove(ok, "rm_262"))
    /\ UNCHANGED <<filename, muxed, target>>
    /\ UNCHANGED <<ctrlVars, queueVars, detVars>>

\* lines 261-264: os.remove(pts_path), OSError logged
Muxer_262(ok) ==
    /\ pc["muxer"] = "rm_262"
    /\ Outcome(ok, <<filename, "txt">> \in temp)
    /\ temp' = IF ok THEN temp \ {<<filename, "txt">>} ELSE temp
    /\ job' = [job EXCEPT !.rm_pts = IF ok THEN "ok" ELSE "failed"]
    /\ Goto("muxer", AfterRemove(ok, "mv_266"))
    /\ UNCHANGED <<filename, muxed, target>>
    /\ UNCHANGED <<ctrlVars, queueVars, detVars>>

\* lines 265-268: os.rename(mkv_path, <target_directory>/<name>.mkv), OSError
\* logged
Muxer_266(ok) ==
    /\ pc["muxer"] = "mv_266"
    /\ Outcome(ok, <<filename, "mkv">> \in temp)
    /\ temp' = IF ok THEN temp \ {<<filename, "mkv">>} ELSE temp
    /\ target' = IF ok THEN Moved(target, <<filename, "mkv">>) ELSE target
    /\ job' = [job EXCEPT !.mv = IF ok THEN "ok" ELSE "failed"]
    /\ Goto("muxer", "loop")
    /\ UNCHANGED <<filename, muxed>>
    /\ UNCHANGED <<ctrlVars, queueVars, detVars>>

muxer ==
    \/ Muxer_243
    \/ Muxer_245
    \/ \E ok, partial \in BOOLEAN : Muxer_252(ok, partial)
    \/ \E ok \in BOOLEAN : Muxer_258(ok)
    \/ \E ok \in BOOLEAN : Muxer_262(ok)
    \/ \E ok \in BOOLEAN : Muxer_266(ok)

----------------------------------------------------------------------------
\* Frames arrive with any score of Scores, any interval of Dts apart.
Observe ==
    \E s \in Scores, dt \in Dts : now + dt <= MaxTime /\ Detector_222(s, dt)

Next ==
    \/ Observe
    \/ motion_detector
    \/ closeEvent
    \/ muxer

Spec == Init /\ [][Next]_vars

\* The scenario: frames arrive one per second with the scores ScenarioScores.
ObserveScenario ==
    /\ now <= Len(ScenarioScores)
    /\ Detector_222(IF now = 0 THEN 0 ELSE ScenarioScores[now], 1)

NextScenario ==
    \/ ObserveScenario
    \/ motion_detector
    \/ closeEvent
    \/ muxer

SpecScenario == Init /\ [][NextScenario]_vars

----------------------------------------------------------------------------
\* Vocabulary of the properties.

Jobs(q) == SelectSeq(q, LAMBDA f : f # None)
MuxedNames == [i \in 1..Len(muxed) |-> muxed[i].name]
IsPrefix(a, b) == Len(a) <= Len(b) /\ SubSeq(b, 1, Len(a)) = a
Count(n, q) == Cardinality({i \in 1..Len(q) : q[i] = n})
SubmittedBeforeShutdown ==
    Jobs(SubSeq(submitted, 1, IF shutdownMark < 0 THEN 0 ELSE shutdownMark))
Intermediates(n) == {<<n, "h264">>, <<n, "txt">>}
InStartRecording ==
    pc["detector"] \in {"sr_135", "sr_136", "sr_138", "sr_142", "sr_143"}
InStopRecording(t) ==
    pc[t] \in {"st_146", "st_147", "st_148", "st_150", "st_151", "st_152"}
StartFailed == pc["detector"] \in {"raised_138", "raised_142"}
DetectorRunning ==
    pc["detector"] \notin {"raised_138", "raised_142", "raised_147", "done"}
\* The detector is between two observations and closeEvent has not run.
Settled == pc["gui"] = "idle" /\ pc["detector"] \in {"loop", "capture"}
JobClean ==
    /\ job.mux = "ok" /\ job.rm_h264 = "ok" /\ job.rm_pts = "ok"
    /\ job.mv = "ok"

----------------------------------------------------------------------------
\* C1: the calls camera.start_encoder and camera.stop_encoder alternate,
\* starting with start_encoder, in every interleaving of the detector thread
\* with closeEvent: at every moment the number of start_encoder calls exceeds
\* the number of stop_encoder calls by 0 or 1.
C1_EncoderCallsAlternate ==
    calls.start_encoder - calls.stop_encoder \in {0, 1}

\* C2: once closeEvent has run and the detector loop has exited, the
\* controller is Idle: the encoder is stopped, the timecode writer is closed
\* and the last recording has been put on the queue.
C2_IdleAfterShutdown ==
    (pc["gui"] = "done" /\ pc["detector"] = "done") =>
        /\ ~recording
        /\ ~encoderRunning
        /\ openWriters = {}
        /\ current_filename # None => Count(current_filename, submitted) >= 1

\* C3: every mkvmerge invocation is for one submitted job, in queue order and
\* none twice, and when the muxer exits every job submitted before _run was
\* set False has had its invocation; with nothing submitted later that is
\* exactly one invocation per submitted job.
C3_SubmittedJobsAllMuxed ==
    /\ IsPrefix(MuxedNames, Jobs(submitted))
    /\ pc["muxer"] = "done" => IsPrefix(SubmittedBeforeShutdown, MuxedNames)

C3_Witness ==
    /\ pc["muxer"] = "done"
    /\ Len(SubmittedBeforeShutdown) = 2
    /\ Len(muxed) = 2

\* C4: each recording's filename is put on the queue exactly once: never
\* twice, and once the controller is Idle with no call in progress (and no
\* start_recording that failed), once.
C4_OneJobPerRecording ==
    \A n \in 1..names :
        /\ Count(n, submitted) <= 1
        /\ (/\ ~recording
            /\ ~StartFailed
            /\ ~InStartRecording
            /\ ~InStopRecording("detector")
            /\ ~InStopRecording("gui")) => Count(n, submitted) = 1

\* C5: a failed mkvmerge run for a job leaves the job's video and timecode
\* files and the destination directory as they were and sends the worker back
\* to its loop, not to the deletions; the worker is in its delete and move
\* steps only for a job whose mkvmerge run succeeded, and it exits only by its
\* loop condition, with every job submitted before shutdown attempted, the
\* ones after a failed job included.
C5_FailedMuxStep ==
    (pc["muxer"] = "mux_252" /\ job'.mux = "failed") =>
        /\ \A f \in Intermediates(filename) : (f \in temp') = (f \in temp)
        /\ target' = target
        /\ muxer_queue' = muxer_queue
        /\ pc'["muxer"] = "loop"

C5_CleanupOnlyAfterSuccess ==
    /\ pc["muxer"] \in {"rm_258", "rm_262", "mv_266"} => job.mux = "ok"
    /\ pc["muxer"] = "done" =>
         \A i \in 1..Len(muxed) :
             (~muxed[i].ok /\ i < Len(SubmittedBeforeShutdown))
                 => Len(muxed) > i

C5_MuxFailureIsolated ==
    [][C5_FailedMuxStep]_vars /\ []C5_CleanupOnlyAfterSuccess

C5_Witness ==
    /\ Len(muxed) = 2
    /\ ~muxed[1].ok
    /\ muxed[2].name # muxed[1].name
    /\ Intermediates(muxed[1].name) \subseteq temp
    /\ pc["muxer"] = "done"

\* C6: when the worker has finished a job whose mkvmerge run, deletions and
\* move all succeeded, the job's video and timecode files are not in the temp
\* directory and its container is in the destination directory and not in the
\* temp directory.
C6_SuccessfulJobFinalized ==
    (pc["muxer"] \in {"loop", "get", "done"} /\ JobClean) =>
        /\ Intermediates(job.name) \cap temp = {}
        /\ <<job.name, "mkv">> \in target
        /\ <<job.name, "mkv">> \notin temp

\* The job before it failed, and its files are all still in the temp directory.
C6_Witness ==
    /\ pc["muxer"] = "loop"
    /\ JobClean
    /\ Len(muxed) = 2
    /\ ~muxed[1].ok
    /\ muxed[1].name # job.name
    /\ Intermediates(muxed[1].name) \cup {<<muxed[1].name, "mkv">>}
           \subseteq temp

\* C7: as long as closeEvent has not run, the detector loop's recording starts
\* and stops alternate, starting with a start: at every moment the number of
\* starts exceeds the number of stops by 0 or 1.
C7_StartsAndStopsAlternate ==
    pc["gui"] = "idle" =>
        calls.start_recording - calls.stop_recording \in {0, 1}

C7_Witness ==
    /\ pc["gui"] = "idle"
    /\ calls.start_recording = 2
    /\ calls.stop_recording = 1

\* C8: as long as every score observed is below the threshold,
\* start_recording has not been called.
C8_NoStartBelowThreshold ==
    peak < mse_threshold => calls.start_recording = 0

C8_Witness ==
    /\ now = MaxTime
    /\ pc["detector"] = "loop"
    /\ 0 < peak /\ peak < mse_threshold
    /\ stabilized
    /\ calls.start_recording = 0

\* C9, as amended: in the scenario, with closeEvent not run, the detector has
\* not started before the observation at index 3 (now = 5), has started
\* exactly one recording from then on, is still recording after the
\* observations at index 3 to 10, and has stopped it after the observation at
\* index 11 (now = 13), the first one more than 3 s after the last activity.
C9_ScenarioStopsAtIndex11 ==
    Settled =>
        /\ now < 5 => (calls.start_recording = 0 /\ ~recording)
        /\ (5 <= now /\ now <= 12) =>
               /\ calls.start_recording = 1
               /\ calls.stop_recording = 0
               /\ recording /\ encoderRunning
        /\ now = 13 =>
               /\ calls.start_recording = 1
               /\ calls.stop_recording = 1
               /\ ~recording /\ ~encoderRunning
               /\ submitted = <<1>>

C9_Witness ==
    /\ Settled
    /\ now = 13
    /\ calls.stop_recording = 1
    /\ submitted = <<1>>

\* C9, as stated: the recording is stopped at the observation at index 10
\* (now = 12), 3 s after the last activity.
C9_ScenarioStopsAtIndex10 ==
    Settled =>
        /\ now < 5 => (calls.start_recording = 0 /\ ~recording)
        /\ (5 <= now /\ now <= 11) =>
               /\ calls.start_recording = 1
               /\ calls.stop_recording = 0
               /\ recording
        /\ now >= 12 =>
               /\ calls.start_recording = 1
               /\ calls.stop_recording = 1
               /\ ~recording

\* C10: when opening the timecode file or starting the encoder fails in
\* start_recording, the controller is Idle afterwards and the detector loop
\* keeps running.
C10_StartFailureLeavesIdle ==
    StartFailed => (~recording /\ DetectorRunning)

----------------------------------------------------------------------------
\* No start_recording or stop_recording call is in progress, and none was left
\* by an exception.
Quiescent ==
    /\ ~InStartRecording
    /\ ~InStopRecording("detector")
    /\ ~InStopRecording("gui")
    /\ \A t \in {"detector", "gui"} :
           pc[t] \notin {"raised_138", "raised_142", "raised_147"}

\* C11: when camera.stop_encoder() reports an error in stop_recording while the
\* encoder of a recording is running, the timecode writer is closed all the
\* same.
C11_WriterClosedOnStopError ==
    \A t \in {"detector", "gui"} :
        (pc[t] = "raised_147" /\ encoderRunning) => openWriters = {}

\* C12: after a successful mkvmerge run the second deletion is attempted
\* whatever the first did, the move is attempted whatever the deletions did,
\* and the worker goes on: back at its loop all three steps of the job have
\* an outcome, and at its exit every job submitted before shutdown that
\* follows a successful one has been attempted.
C12_CleanupStepsIndependent ==
    /\ pc["muxer"] = "rm_262" => job.rm_h264 \in {"ok", "failed"}
    /\ pc["muxer"] = "mv_266" =>
           (job.rm_h264 \in {"ok", "failed"} /\ job.rm_pts \in {"ok", "failed"})
    /\ (pc["muxer"] \in {"loop", "get", "done"} /\ job.mux = "ok") =>
           /\ job.rm_h264 \in {"ok", "failed"}
           /\ job.rm_pts \in {"ok", "failed"}
           /\ job.mv \in {"ok", "failed"}
    /\ pc["muxer"] = "done" =>
         \A i \in 1..Len(muxed) :
             (muxed[i].ok /\ i < Len(SubmittedBeforeShutdown))
                 => Len(muxed) > i

\* Both deletions of the first job failed, its container was moved all the
\* same, and the next job was attempted.
C12_Witness ==
    /\ Len(muxed) = 2
    /\ muxed[1].ok
    /\ muxed[2].name # muxed[1].name
    /\ Intermediates(muxed[1].name) \subseteq temp
    /\ <<muxed[1].name, "mkv">> \in target
    /\ faults = 2

\* C13, as amended: a score equal to the threshold is not activity. The
\* observation takes the branch of line 233, not that of line 230, so it
\* starts no recording; and last_activity is renewed only at an observation
\* whose score is above the threshold.
C13_ThresholdStep ==
    /\ (pc["detector"] = "capture" /\ previous # "None"
            /\ pc'["detector"] # "capture" /\ mse' = mse_threshold)
           => pc'["detector"] = "det_233"
    /\ last_activity' # last_activity => mse > mse_threshold

C13_ThresholdState ==
    (pc["detector"] = "det_230" \/ InStartRecording) => mse > mse_threshold

C13_ThresholdIsNotActivity ==
    [][C13_ThresholdStep]_vars /\ []C13_ThresholdState

\* A recording goes on at a score equal to the threshold, last_activity not
\* renewed.
C13_Witness ==
    /\ pc["detector"] = "loop"
    /\ recording
    /\ stabilized
    /\ mse = mse_threshold
    /\ last_activity < now

\* C13, as stated: a score equal to the threshold is activity. With the
\* detector stabilized, its observation takes the branch of line 230.
C13_ThresholdIsActivity ==
    (stabilized /\ mse = mse_threshold
        /\ pc["detector"] \in {"det_230", "det_233"})
            => pc["detector"] = "det_230"

\* C14: at most one timecode writer is open, the encoder never runs with the
\* timecode writer closed, and with no start_recording or stop_recording call
\* in progress the encoder runs if and only if the timecode writer is open.
C14_EncoderAndWriterTogether ==
    /\ Cardinality(openWriters) <= 1
    /\ encoderRunning => (pts_writer # None /\ pts_writer \in openWriters)
    /\ Quiescent => (encoderRunning <=> openWriters # {})


----------------------------------------------------------------------------
\* A thread t takes the step of line 146 with _recording False: a stop request
\* reaches the controller while it is Idle.
StopReachesIdle(t) ==
    pc[t] = "st_146" /\ ~recording /\ pc'[t] # pc[t]

\* C15 (as the code has it): a stop request that reaches the recording
\* controller while it is Idle is ignored: stop_recording returns to its caller,
\* which carries on (the detector with its loop, closeEvent with line 211), and
\* encoder, writer, overlay, flag and queue are left as they were.
C15_IdleStopStep ==
    \A t \in {"detector", "gui"} :
        StopReachesIdle(t) =>
            /\ pc'[t] = Return(t)
            /\ UNCHANGED <<ctrlVars, queueVars, faults>>
C15_IdleStopFatalStep ==
    StopReachesIdle("detector") => pc'["detector"] # Return("detector")
----------------------------------------------------------------------------
\* C16: while recording, the detector calls stop_recording at an observation if
\* and only if the observation is not activity and strictly more than
\* recording_timeout has passed since the most recent activity observation;
\* every activity observation sets last_activity to the current time (at once
\* when recording, at the end of start_recording otherwise); so the detector is
\* never inside stop_recording within recording_timeout of the last activity.
C16_StopStep ==
    /\ (pc["detector"] = "det_233" /\ pc'["detector"] # "det_233") =>
           (pc'["detector"] = "st_146"
                <=> (recording /\ now - last_activity > recording_timeout))
    /\ (pc["detector"] = "det_230" /\ pc'["detector"] # "det_230") =>
           /\ pc'["detector"] # "st_146"
           /\ recording => (last_activity' = now /\ pc'["detector"] = "loop")
    /\ (pc["detector"] = "sr_143" /\ pc'["detector"] # "sr_143") =>
           last_activity' = now
    /\ pc'["detector"] = "st_146" => pc["detector"] \in {"det_233", "st_146"}
C16_StopState ==
    /\ pc["detector"] = "det_233" => ~(stabilized /\ mse > mse_threshold)
    /\ pc["detector"] = "det_230" => (stabilized /\ mse > mse_threshold)
    /\ (pc["detector"] \in {"loop", "capture", "done"} /\ previous # "None"
            /\ stabilized /\ mse > mse_threshold) => last_activity = now
    /\ InStopRecording("detector") =>
           /\ mse <= mse_threshold
           /\ now - last_activity > recording_timeout
C16_StopsOnlyAfterTimeout == [][C16_StopStep]_vars /\ []C16_StopState

\* The detector stops a recording whose activity was renewed after its start,
\* at the first observation later than recording_timeout after that renewal.
C16_Witness ==
    /\ pc["detector"] = "st_147" /\ pc["gui"] = "idle"
    /\ now - last_activity = recording_timeout + 1
    /\ last_activity = 4 /\ names = 1


----------------------------------------------------------------------------
\* C17: stabilization is permanent: the stabilized flag, once true, is never
\* reset; so after a recording has ended, the next activity observation is
\* taken as activity and, the controller being Idle, starts a new recording,
\* with no below-threshold observation needed in between.
C17_RearmStep ==
    /\ stabilized => stabilized'
    /\ (pc["detector"] = "capture" /\ pc'["detector"] # "capture"
            /\ stabilized /\ mse' > mse_threshold)
           => pc'["detector"] = "det_230"
    /\ (pc["detector"] = "det_230" /\ pc'["detector"] # "det_230"
            /\ ~recording)
           => pc'["detector"] = "sr_135"
C17_StabilizationPermanent == [][C17_RearmStep]_vars

\* The detector stopped the first recording at the first observation later
\* than recording_timeout after its last activity (closeEvent has not run) and
\* starts the second at the very next observation.
C17_Witness ==
    /\ pc["detector"] = "sr_135" /\ pc["gui"] = "idle"
    /\ names = 1 /\ calls.stop_recording = 1
    /\ now - last_activity = recording_timeout + 2
    /\ stabilized /\ mse > mse_threshold


----------------------------------------------------------------------------
\* C18: the detector never starts a recording before stabilization: whenever it
\* takes an observation as activity, is inside start_recording or has ever
\* called it, a previous frame existed and some strictly earlier observation
\* scored below the threshold (the observation taken as activity scores above
\* it, so it is not that one).
C18_NoStartBeforeStabilization ==
    (pc["detector"] = "det_230" \/ InStartRecording \/ recording
        \/ calls.start_recording > 0 \/ names > 0)
            => (belowSeen /\ stabilized /\ previous # "None")

\* Two observations were scored, one above the threshold and none below it, and
\* nothing has been started.
C18_Witness ==
    /\ pc["detector"] = "loop" /\ now = 3
    /\ peak > mse_threshold /\ ~belowSeen
    /\ calls.start_recording = 0 /\ ~recording


----------------------------------------------------------------------------
\* C19: no job is stranded: once the muxer worker has exited, the queue is
\* empty (and so stays empty: no thread puts a job on it afterwards).
C19_NoJobStranded ==
    pc["muxer"] = "done" => muxer_queue = << >>


----------------------------------------------------------------------------
\* The detector and the muxer run in threads of their own: a thread that can
\* take its next step eventually takes it. Frame captures and mux invocations
\* return (they are steps of these threads). Nothing is assumed of closeEvent.
\* Frames score below or above the threshold.
FairScores == {mse_threshold - 1, mse_threshold + 1}

ObserveFair ==
    \E s \in FairScores, dt \in Dts :
        now + dt <= MaxTime /\ Detector_222(s, dt)

\* The detector's steps; time is cut off at the loop test of line 221: while
\* _run is True no iteration is entered whose frame would arrive after MaxTime,
\* so that every capture waited for returns.
DetectorFair ==
    /\ (pc["detector"] = "loop" /\ run) => now < MaxTime
    /\ motion_detector

NextFair ==
    \/ ObserveFair
    \/ DetectorFair
    \/ closeEvent
    \/ muxer

SpecFair ==
    /\ Init
    /\ [][NextFair]_vars
    /\ WF_vars(ObserveFair \/ DetectorFair)
    /\ WF_vars(muxer)

\* The detector thread has ended: its loop saw _run False, or an exception of
\* start_recording or stop_recording ended it.
DetectorExited ==
    pc["detector"] \in {"done", "raised_138", "raised_142", "raised_147"}

\* C20: after _run has been set to False, the detector's loop and the muxer
\* worker both eventually exit, whatever the outcomes of the mux operations.
C20_ThreadsExitAfterShutdown ==
    ~run ~> (DetectorExited /\ pc["muxer"] = "done")

\* Both threads have exited after shutdown, the worker having run one mux that
\* failed and one that succeeded.
C20_Witness ==
    /\ ~run /\ pc["detector"] = "done" /\ pc["muxer"] = "done"
    /\ Len(muxed) = 2 /\ ~muxed[1].ok /\ muxed[2].ok

=============================================================================
